---- MODULE Spec2Model ----
(***************************************************************************)
(* Date-driven incremental lineup loader                                   *)
(* (src/src/etl/load_gamebygame_lineups.py).                               *)
(*                                                                         *)
(* Text is modelled as a sequence of one-character strings, an Optional    *)
(* value as a set with at most one element, a calendar date as a record    *)
(* [y, m, d], the API date text "MM/DD/YYYY" as the tuple <<m, d, y>> and  *)
(* the SQL date text "YYYY-MM-DD" as the tuple <<y, m, d>>.                *)
(***************************************************************************)
EXTENDS Integers, Sequences, FiniteSets, TLC

VARIABLES
    spine,          \* nba.fact_games: set of game records
    store,          \* nba.lineup_game_logs as committed (visible) rows
    txnOpen,        \* a transaction of engine.begin() is open
    txnStore,       \* the rows as seen inside the open transaction
    txnNow,         \* NOW() of the open transaction
    clock,          \* database time
    season,         \* parameter season
    team_id,        \* parameter team_id
    group_quantity, \* parameter group_quantity
    limit,          \* parameter limit (None = {})
    date_list,      \* the work list: sequence of [api, sql] pairs
    i,              \* 1-based loop index of enumerate(date_list, 1)
    pc,             \* position of the run
    lineup_rows,    \* the rows extracted for the current date
    game_info,      \* the resolved game of the current date
    k,              \* index of the next lineup to execute in the transaction
    loaded,         \* local counter loaded
    total_loaded,
    success_count,
    fail_count,
    no_data_count,
    result,         \* the returned integer (None = {} until the run returns)
    outcome,        \* per date index: how its iteration ended
    sleeps,         \* per date index: number of time.sleep calls
    calls,          \* per date index: number of source calls started
    batch,          \* per date index: the enriched records sent to the store
    spineDates,     \* the dates the spine reported to the run, in its order
    arg,            \* input of the function under study
    res             \* its output

vars == <<spine, store, txnOpen, txnStore, txnNow, clock, season, team_id,
          group_quantity, limit, date_list, i, pc, lineup_rows, game_info, k,
          loaded, total_loaded, success_count, fail_count, no_data_count,
          result, outcome, sleeps, calls, batch, spineDates, arg, res>>

----------------------------------------------------------------------------
(* Bounds *)

MaxRows == 2

MaxNameLen == 5

MaxLimit == 1

MaxUpserts == 3

----------------------------------------------------------------------------
(* Optional values *)

None == {}

Some(v) == {v}

The(o) == CHOOSE v \in o : TRUE

----------------------------------------------------------------------------
(* Text helpers: Python str methods on sequences of characters *)

Whitespace == {" "}

\* s[a..b] clipped to the text
Slice(s, a, b) == IF a > b THEN <<>> ELSE SubSeq(s, a, b)

\* sep occurs in s at position p
OccursAt(s, sep, p) ==
    /\ p >= 1
    /\ p + Len(sep) - 1 <= Len(s)
    /\ \A j \in 1..Len(sep) : s[p + j - 1] = sep[j]

\* Python: sep in s
Contains(s, sep) == \E p \in 1..Len(s) : OccursAt(s, sep, p)

\* Python: s.find(sep) + 1, 0 when absent
Find(s, sep) ==
    IF Contains(s, sep)
    THEN CHOOSE p \in 1..Len(s) :
            /\ OccursAt(s, sep, p)
            /\ \A q \in 1..(p - 1) : ~OccursAt(s, sep, q)
    ELSE 0

RECURSIVE PySplit(_, _)
\* Python: s.split(sep)
PySplit(s, sep) ==
    LET p == Find(s, sep) IN
    IF p = 0 THEN <<s>>
    ELSE <<Slice(s, 1, p - 1)>> \o PySplit(Slice(s, p + Len(sep), Len(s)), sep)

\* Python: s.split(sep, 1)
PySplitOnce(s, sep) ==
    LET p == Find(s, sep) IN
    IF p = 0 THEN <<s>>
    ELSE <<Slice(s, 1, p - 1), Slice(s, p + Len(sep), Len(s))>>

RECURSIVE LStrip(_)
LStrip(s) ==
    IF s # <<>> /\ Head(s) \in Whitespace THEN LStrip(Tail(s)) ELSE s

RECURSIVE RStrip(_)
RStrip(s) ==
    IF s # <<>> /\ s[Len(s)] \in Whitespace
    THEN RStrip(Slice(s, 1, Len(s) - 1)) ELSE s

\* Python: s.strip()
Strip(s) == RStrip(LStrip(s))

RECURSIVE PySplitWs(_)
\* Python: s.split()  (whitespace runs, no empty tokens)
PySplitWs(s) ==
    LET t == LStrip(s) IN
    IF t = <<>> THEN <<>>
    ELSE LET ws == {p \in 1..Len(t) : t[p] \in Whitespace}
             e  == IF ws = {} THEN Len(t) + 1
                   ELSE CHOOSE p \in ws : \A q \in ws : p <= q
         IN <<Slice(t, 1, e - 1)>> \o PySplitWs(Slice(t, e, Len(t)))

RECURSIVE PyJoin(_, _)
\* Python: sep.join(parts)
PyJoin(parts, sep) ==
    IF parts = <<>> THEN <<>>
    ELSE IF Len(parts) = 1 THEN parts[1]
    ELSE parts[1] \o sep \o PyJoin(Tail(parts), sep)

Last(q) == q[Len(q)]

----------------------------------------------------------------------------
(* clean_player_names *)

DashSep == <<" ", "-", " ">>

DotSep == <<".", " ">>

SemiSep == <<";", " ">>

\* a source cell: [t |-> "null"], [t |-> "nan"] or [t |-> "str", s |-> text]
NullCell == [t |-> "null"]

NanCell == [t |-> "nan"]

StrCell(s) == [t |-> "str", s |-> s]

\* a variant that keeps the first token of a spaced name
LastNameMut(name) ==
    IF Contains(name, DotSep) THEN Last(PySplitOnce(name, DotSep))
    ELSE IF Contains(name, <<" ">>) THEN Head(PySplitWs(name))
    ELSE name

\* the surname of one stripped, non-empty name: lines 64-71
LastName(name) ==
    IF Contains(name, DotSep) THEN Last(PySplitOnce(name, DotSep))
    ELSE IF Contains(name, <<" ">>) THEN Last(PySplitWs(name))
    ELSE name

RECURSIVE CleanedNames(_)
\* the loop of lines 59-71 over parts
CleanedNames(parts) ==
    IF parts = <<>> THEN <<>>
    ELSE LET name == Strip(Head(parts)) IN
         IF name = <<>> THEN CleanedNames(Tail(parts))
         ELSE <<LastName(name)>> \o CleanedNames(Tail(parts))

\* returns an Optional text
clean_player_names(group_name_raw) ==
    IF group_name_raw.t # "str" THEN None
    ELSE IF group_name_raw.s = <<>> THEN None
    ELSE LET cleaned_names == CleanedNames(PySplit(group_name_raw.s, DashSep)) IN
         IF cleaned_names # <<>> THEN Some(PyJoin(cleaned_names, SemiSep))
         ELSE None

----------------------------------------------------------------------------
(* Dates *)

DaysIn(m, y) ==
    IF m \in {4, 6, 9, 11} THEN 30
    ELSE IF m = 2 THEN (IF y % 4 = 0 /\ (y % 100 # 0 \/ y % 400 = 0) THEN 29 ELSE 28)
    ELSE 31

Date(y, m, d) == [y |-> y, m |-> m, d |-> d]

\* date_obj.strftime('%m/%d/%Y'): the text MM/DD/YYYY
StrfApi(date_obj) == <<date_obj.m, date_obj.d, date_obj.y>>

\* date_obj.strftime('%Y-%m-%d'): the text YYYY-MM-DD
StrfSql(date_obj) == <<date_obj.y, date_obj.m, date_obj.d>>

\* datetime.strptime(text, '%m/%d/%Y'): Optional date, None when it raises
StrpApi(text) ==
    IF /\ Len(text) = 3
       /\ text[1] \in 1..12
       /\ text[3] \in 1..9999
       /\ text[2] \in 1..DaysIn(text[1], text[3])
    THEN Some(Date(text[3], text[1], text[2]))
    ELSE None

\* the database's reading of the text YYYY-MM-DD as a date
SqlToDate(text) == Date(text[1], text[2], text[3])

\* game_date.replace('/', ''): the digits MMDDYYYY, as a number
CompactApi(text) == text[1] * 1000000 + text[2] * 10000 + text[3]

\* the digits YYYYMMDD, as a number
CompactYmd(date_obj) == date_obj.y * 10000 + date_obj.m * 100 + date_obj.d

DateLess(a, b) == CompactYmd(a) < CompactYmd(b)

----------------------------------------------------------------------------
(* The game spine, nba.fact_games *)

TeamX == 1

TeamY == 2

TeamZ == 3

Teams == {TeamX, TeamY, TeamZ}

Seasons == {"2024-25", "2023-24"}

D1 == Date(2025, 1, 15)

D2 == Date(2025, 2, 3)

D0 == Date(2024, 3, 9)

Game(id, d, h, a, s) ==
    [game_id |-> id, game_date |-> d, home_team_id |-> h, away_team_id |-> a,
     season |-> s]

GameUniverse ==
    { Game("G1", D1, TeamX, TeamY, "2024-25"),
      Game("G2", D2, TeamY, TeamX, "2024-25"),
      Game("G3", D1, TeamZ, TeamX, "2024-25"),
      Game("G4", D2, TeamY, TeamZ, "2024-25"),
      Game("G0", D0, TeamX, TeamZ, "2023-24") }

\* the spines a run may start from
InitSpines ==
    { {g \in GameUniverse : g.game_id # "G3"},
      {g \in GameUniverse : g.game_id \notin {"G1", "G3"}},
      {g \in GameUniverse : g.game_id \in {"G1", "G3", "G4"}},
      {g \in GameUniverse : g.game_id \in {"G4", "G0"}} }

RECURSIVE SortDates(_)
\* ORDER BY game_date over a set of dates
SortDates(S) ==
    IF S = {} THEN <<>>
    ELSE LET first == CHOOSE a \in S : \A b \in S \ {a} : DateLess(a, b)
         IN <<first>> \o SortDates(S \ {first})

\* SELECT DISTINCT game_date ... ORDER BY game_date: lines 270-282
GameDates(sp, team, seas) ==
    SortDates({g.game_date : g \in
        {g \in sp : (g.home_team_id = team \/ g.away_team_id = team)
                    /\ g.season = seas}})

\* lines 285-290
DateList(game_dates) ==
    [j \in 1..Len(game_dates) |->
        [api |-> StrfApi(game_dates[j]), sql |-> game_dates[j]]]

\* Python truth value of the Optional int limit
LimitTruthy(lim) == lim # None /\ The(lim) # 0

\* Python date_list[:n]
PySliceTo(q, n) ==
    IF n >= 0 THEN Slice(q, 1, IF n < Len(q) THEN n ELSE Len(q))
    ELSE Slice(q, 1, IF Len(q) + n > 0 THEN Len(q) + n ELSE 0)

\* lines 292-293
ApplyLimit(q, lim) == IF LimitTruthy(lim) THEN PySliceTo(q, The(lim)) ELSE q

----------------------------------------------------------------------------
(* get_game_info_for_date *)

NotFound == [found |-> FALSE]

\* the SELECT of lines 177-189 before LIMIT 1
MatchingGames(sp, sql_date, team) ==
    {g \in sp : g.game_date = SqlToDate(sql_date)
                /\ (g.home_team_id = team \/ g.away_team_id = team)}

\* a variant whose opponent is always the home team
GameInfoOfMut(g, team) ==
    [found |-> TRUE, game_id |-> g.game_id,
     is_home |-> (g.home_team_id = team),
     opponent_team_id |-> g.home_team_id]

\* the row of lines 183-184 and the dict of lines 198-202
GameInfoOf(g, team) ==
    [found |-> TRUE, game_id |-> g.game_id,
     is_home |-> (g.home_team_id = team),
     opponent_team_id |->
        IF g.home_team_id = team THEN g.away_team_id ELSE g.home_team_id]

\* the set of values get_game_info_for_date may return (LIMIT 1 has no
\* ORDER BY: any matching row may be the one returned)
get_game_info_for_date(sp, game_date, team) ==
    LET parsed == StrpApi(game_date) IN
    IF parsed = None THEN {NotFound}
    ELSE LET m == MatchingGames(sp, StrfSql(The(parsed)), team) IN
         IF m = {} THEN {NotFound}
         ELSE {GameInfoOf(g, team) : g \in m}

----------------------------------------------------------------------------
(* extract_lineups_for_date *)

NumCell(n) == [t |-> "num", n |-> n]

\* parse_int / parse_float of src.etl.parsing_utils: a total conversion,
\* "no value" for a missing or non-numeric cell
ParseNum(cell) == IF cell.t = "num" THEN Some(cell.n) ELSE None

\* Python str() of a GROUP_ID cell
PyStr(cell) ==
    IF cell.t = "null" THEN "None"
    ELSE IF cell.t = "nan" THEN "nan"
    ELSE cell.s

\* row.get('GROUP_ID', ''), then str(): line 117
RawGroupId(resp, row) == IF resp.hasGroupId THEN PyStr(row.GROUP_ID) ELSE ""

SynthId(game_date, idx) ==
    [kind |-> "synth", compact |-> CompactApi(game_date), idx |-> idx]

SrcId(s) == [kind |-> "src", s |-> s]

\* lines 117-119
GroupId(resp, row, game_date, idx) ==
    LET group_id == RawGroupId(resp, row) IN
    IF group_id = "" \/ group_id = "nan" THEN SynthId(game_date, idx)
    ELSE SrcId(group_id)

\* lines 124-161; pts stands for each of the box-score totals min .. pf,
\* which are all filled by the same total conversion
LineupRowOf(resp, idx, game_date, seas, team, gq) ==
    LET row == resp.rows[idx + 1] IN
    [game_id |-> "", game_date |-> game_date, season |-> seas,
     team_id |-> team, group_quantity |-> gq,
     group_id |-> GroupId(resp, row, game_date, idx),
     group_name |-> clean_player_names(row.GROUP_NAME),
     opponent_team_id |-> None, is_home |-> None,
     pts |-> ParseNum(row.PTS)]

RECURSIVE ExtractFrom(_, _, _, _, _, _)
\* the loop of lines 116-163 over the rows kept by the filter of line 106;
\* idx is the row's label, its 0-based position in the response
ExtractFrom(resp, idx, game_date, seas, team, gq) ==
    IF idx >= Len(resp.rows) THEN <<>>
    ELSE (IF resp.rows[idx + 1].TEAM_ID = team
          THEN <<LineupRowOf(resp, idx, game_date, seas, team, gq)>>
          ELSE <<>>)
         \o ExtractFrom(resp, idx + 1, game_date, seas, team, gq)

\* the value returned for a response that arrived
extract_lineups_for_date(resp, game_date, seas, team, gq) ==
    ExtractFrom(resp, 0, game_date, seas, team, gq)

\* the cells the source may send
GroupIdCells == {NullCell, NanCell, [t |-> "str", s |-> ""],
                 [t |-> "str", s |-> "12-34"], [t |-> "str", s |-> "56-78"]}

NameCells == {StrCell(<<"A", " ", "B">>)}

PtsCells == {NumCell(7)}

SourceRows ==
    [TEAM_ID : {TeamX, TeamY}, GROUP_ID : GroupIdCells,
     GROUP_NAME : NameCells, PTS : PtsCells]

RowSeqs == UNION {[1..n -> SourceRows] : n \in 0..MaxRows}

\* a response without the GROUP_ID column carries null in the model's cell
Responses ==
    {[hasGroupId |-> TRUE, rows |-> q] : q \in RowSeqs}
    \cup {[hasGroupId |-> FALSE, rows |-> q] :
             q \in {r \in RowSeqs : \A j \in 1..Len(r) : r[j].GROUP_ID = NullCell}}

----------------------------------------------------------------------------
(* SQL_UPSERT_GAME_LINEUP *)

KeyOf(r) == <<r.game_id, r.team_id, r.group_id>>

\* the parameters of lines 338-366
UpsertParams(lineup, sql_date) ==
    [game_id |-> lineup.game_id, season |-> lineup.season,
     team_id |-> lineup.team_id, group_quantity |-> lineup.group_quantity,
     group_id |-> lineup.group_id, group_name |-> lineup.group_name,
     opponent_team_id |-> lineup.opponent_team_id,
     is_home |-> lineup.is_home,
     game_date |-> SqlToDate(StrfSql(sql_date)),
     pts |-> lineup.pts]

\* VALUES (...) with NOW(): lines 219-229
InsertedRow(p, now) ==
    [game_id |-> p.game_id, season |-> p.season, team_id |-> p.team_id,
     group_quantity |-> p.group_quantity, group_id |-> p.group_id,
     group_name |-> p.group_name, opponent_team_id |-> p.opponent_team_id,
     is_home |-> p.is_home, game_date |-> p.game_date, pts |-> p.pts,
     last_updated_at |-> now]

\* DO UPDATE SET ...: lines 230-253 (season and group_quantity are not set)
UpdatedRow(old, p, now) ==
    [old EXCEPT !.group_name = p.group_name,
                !.opponent_team_id = p.opponent_team_id,
                !.is_home = p.is_home,
                !.game_date = p.game_date,
                !.pts = p.pts,
                !.last_updated_at = now]

\* one execution of the statement on a table
Upsert(rows, p, now) ==
    IF \E old \in rows : KeyOf(old) = KeyOf(p)
    THEN {IF KeyOf(old) = KeyOf(p) THEN UpdatedRow(old, p, now) ELSE old :
             old \in rows}
    ELSE rows \cup {InsertedRow(p, now)}

----------------------------------------------------------------------------
(* load_season_game_lineups_for_team *)

Running == {"extract", "resolve", "persist", "sleep"}

\* lines 326-329
Enrich(rows, info) ==
    [j \in 1..Len(rows) |->
        [rows[j] EXCEPT !.game_id = info.game_id,
                        !.opponent_team_id = Some(info.opponent_team_id),
                        !.is_home = Some(info.is_home)]]

\* a variant in which every statement is committed on its own
VisibleDuringTxnMut(committed, working) == working

\* what other connections see while the transaction of line 333 is open
VisibleDuringTxn(committed, working) == committed

\* a variant without the sleep of line 322
SleepCallsMut(o) ==
    CASE o = "no_data_empty" -> 1
      [] o = "no_data_unresolved" -> 0
      [] OTHER -> 1

\* the number of time.sleep calls an iteration makes: lines 314, 322, 378
SleepCalls(o) ==
    CASE o = "no_data_empty" -> 1
      [] o = "no_data_unresolved" -> 1
      [] OTHER -> 1

\* a variant that counts dates instead of rows
AddLoadedMut(total, n) == total + 1

\* line 369
AddLoaded(total, n) == total + n

\* a variant in which an exception ends the loop
AfterExceptionMut == "done"

\* the handler of lines 374-376: the loop goes on to line 378
AfterException == "sleep"

InitRun ==
    /\ spine \in InitSpines
    /\ store = {}
    /\ txnOpen = FALSE
    /\ txnStore = {}
    /\ txnNow = 0
    /\ clock = 0
    /\ season = "2024-25"
    /\ team_id = TeamX
    /\ group_quantity = 5
    /\ limit \in {None} \cup {Some(n) : n \in 0..MaxLimit}
    /\ date_list = <<>>
    /\ i = 0
    /\ pc = "start"
    /\ lineup_rows = <<>>
    /\ game_info = NotFound
    /\ k = 0
    /\ loaded = 0
    /\ total_loaded = 0
    /\ success_count = 0
    /\ fail_count = 0
    /\ no_data_count = 0
    /\ result = None
    /\ outcome = <<>>
    /\ sleeps = <<>>
    /\ calls = <<>>
    /\ batch = <<>>
    /\ spineDates = <<>>
    /\ arg = None
    /\ res = None

Init == InitRun

\* lines 270-300: the work list and the counters
EnumerateDates ==
    /\ pc = "start"
    /\ LET game_dates == GameDates(spine, team_id, season)
           dl == ApplyLimit(DateList(game_dates), limit)
       IN /\ date_list' = dl
          /\ spineDates' = game_dates
          /\ outcome' = [j \in 1..Len(dl) |-> "pending"]
          /\ sleeps' = [j \in 1..Len(dl) |-> 0]
          /\ calls' = [j \in 1..Len(dl) |-> 0]
          /\ batch' = [j \in 1..Len(dl) |-> <<>>]
          /\ i' = 1
          /\ pc' = IF dl = <<>> THEN "done" ELSE "extract"
          /\ result' = IF dl = <<>> THEN Some(0) ELSE None
    /\ total_loaded' = 0
    /\ success_count' = 0
    /\ fail_count' = 0
    /\ no_data_count' = 0
    /\ UNCHANGED <<spine, store, txnOpen, txnStore, txnNow, clock, season,
                   team_id, group_quantity, limit, lineup_rows, game_info, k,
                   loaded, arg, res>>

\* the locals of one iteration are dead once its outcome is counted: each is
\* assigned again (lines 307, 317, 332) before it is next read
EndOfDate ==
    /\ lineup_rows' = <<>>
    /\ game_info' = NotFound
    /\ k' = 0
    /\ loaded' = 0

\* a variant whose handler does not count the date
FailedMut ==
    /\ outcome' = [outcome EXCEPT ![i] = "failed"]
    /\ txnOpen' = FALSE
    /\ txnStore' = {}
    /\ EndOfDate
    /\ pc' = AfterException
    /\ result' = IF AfterException = "done" THEN Some(total_loaded) ELSE result
    /\ UNCHANGED <<store, total_loaded, success_count, no_data_count,
                   fail_count>>

\* except Exception: lines 374-376, leaving the transaction scope of line 333
Failed ==
    /\ fail_count' = fail_count + 1
    /\ outcome' = [outcome EXCEPT ![i] = "failed"]
    /\ txnOpen' = FALSE
    /\ txnStore' = {}
    /\ EndOfDate
    /\ pc' = AfterException
    /\ result' = IF AfterException = "done" THEN Some(total_loaded) ELSE result
    /\ UNCHANGED <<store, total_loaded, success_count, no_data_count>>

\* a variant that counts a date without data as failed
NoDataMut(o) ==
    /\ fail_count' = fail_count + 1
    /\ EndOfDate
    /\ outcome' = [outcome EXCEPT ![i] = o]
    /\ pc' = "sleep"
    /\ UNCHANGED <<store, txnOpen, txnStore, total_loaded, success_count,
                   no_data_count, result>>

\* lines 311-315 and 319-323, up to the sleep
NoData(o) ==
    /\ no_data_count' = no_data_count + 1
    /\ EndOfDate
    /\ outcome' = [outcome EXCEPT ![i] = o]
    /\ pc' = "sleep"
    /\ UNCHANGED <<store, txnOpen, txnStore, total_loaded, success_count,
                   fail_count, result>>

\* lines 307-315: the source call (with its retries) and the extraction
Extract ==
    /\ pc = "extract"
    /\ calls' = [calls EXCEPT ![i] = @ + 1]
    /\ \/ Failed
       \/ \E resp \in Responses :
            LET rows == extract_lineups_for_date(resp, date_list[i].api,
                            season, team_id, group_quantity)
            IN IF rows = <<>>
               THEN NoData("no_data_empty")
               ELSE /\ lineup_rows' = rows
                    /\ pc' = "resolve"
                    /\ UNCHANGED <<store, txnOpen, txnStore, total_loaded,
                                   success_count, fail_count, no_data_count,
                                   outcome, result, game_info, k, loaded>>
    /\ UNCHANGED <<spine, txnNow, clock, season, team_id, group_quantity,
                   limit, date_list, i, sleeps, batch, spineDates, arg, res>>

\* lines 317-333: resolution, enrichment and the start of the transaction
Resolve ==
    /\ pc = "resolve"
    /\ \/ /\ Failed
          /\ UNCHANGED <<txnNow, clock>>
       \/ \E info \in get_game_info_for_date(spine, date_list[i].api, team_id) :
            IF ~info.found
            THEN /\ NoData("no_data_unresolved")
                 /\ UNCHANGED <<txnNow, clock>>
            ELSE    /\ game_info' = info
                    /\ lineup_rows' = Enrich(lineup_rows, info)
                    /\ loaded' = 0
                    /\ k' = 1
                    /\ txnOpen' = TRUE
                    /\ txnStore' = store
                    /\ txnNow' = clock + 1
                    /\ clock' = clock + 1
                    /\ pc' = "persist"
                    /\ UNCHANGED <<store, total_loaded, success_count,
                                   fail_count, no_data_count, outcome, result>>
    /\ UNCHANGED <<spine, season, team_id, group_quantity, limit, date_list,
                   i, sleeps, calls, batch, spineDates, arg, res>>

\* lines 334-367: one conn.execute of the upsert inside the transaction
Execute ==
    /\ pc = "persist"
    /\ k <= Len(lineup_rows)
    /\ \/ /\ Failed
          /\ UNCHANGED batch
       \/ LET working == Upsert(txnStore,
                            UpsertParams(lineup_rows[k], date_list[i].sql), txnNow)
          IN /\ txnStore' = working
             /\ store' = VisibleDuringTxn(store, working)
             /\ loaded' = loaded + 1
             /\ k' = k + 1
             /\ UNCHANGED <<txnOpen, pc, total_loaded, success_count,
                            fail_count, no_data_count, outcome, result,
                            lineup_rows, game_info, batch>>
    /\ UNCHANGED <<spine, txnNow, clock, season, team_id, group_quantity,
                   limit, date_list, i, sleeps, calls, spineDates, arg, res>>

\* the end of the with block of line 333 (commit) and lines 369-372
Commit ==
    /\ pc = "persist"
    /\ k > Len(lineup_rows)
    /\ \/ /\ Failed
          /\ UNCHANGED batch
       \/ /\ store' = txnStore
          /\ txnOpen' = FALSE
          /\ txnStore' = {}
          /\ total_loaded' = AddLoaded(total_loaded, loaded)
          /\ success_count' = success_count + 1
          /\ outcome' = [outcome EXCEPT ![i] = "loaded"]
          /\ batch' = [batch EXCEPT ![i] = lineup_rows]
          /\ EndOfDate
          /\ pc' = "sleep"
          /\ UNCHANGED <<fail_count, no_data_count, result>>
    /\ UNCHANGED <<spine, txnNow, clock, season, team_id, group_quantity,
                   limit, date_list, i, sleeps, calls, spineDates, arg, res>>

\* time.sleep of lines 314, 322 or 378, then the next date or lines 380-392
Sleep ==
    /\ pc = "sleep"
    /\ sleeps' = [sleeps EXCEPT ![i] = @ + SleepCalls(outcome[i])]
    /\ i' = i + 1
    /\ pc' = IF i + 1 > Len(date_list) THEN "done" ELSE "extract"
    /\ result' = IF i + 1 > Len(date_list) THEN Some(total_loaded) ELSE None
    /\ UNCHANGED <<spine, store, txnOpen, txnStore, txnNow, clock, season,
                   team_id, group_quantity, limit, date_list, lineup_rows,
                   game_info, k, loaded, total_loaded, success_count,
                   fail_count, no_data_count, outcome, calls, batch,
                   spineDates, arg, res>>

\* KeyboardInterrupt: not an Exception, so line 374 does not catch it; the
\* with block of line 333 rolls the open transaction back
Interrupt ==
    /\ pc \in Running
    /\ pc' = "aborted"
    /\ txnOpen' = FALSE
    /\ txnStore' = {}
    /\ EndOfDate
    /\ UNCHANGED <<spine, store, txnNow, clock, season, team_id,
                   group_quantity, limit, date_list, i, total_loaded,
                   success_count, fail_count, no_data_count, result, outcome,
                   sleeps, calls, batch, spineDates, arg, res>>

\* the spine is read on separate connections (lines 278 and 191): its
\* loader may withdraw a game between the two reads.  Only a withdrawal of a
\* game of this team on the date about to be resolved is seen by the read of
\* line 191
SpineRevised ==
    /\ pc = "resolve"
    /\ \E g \in spine :
          /\ g.game_date = date_list[i].sql
          /\ g.home_team_id = team_id \/ g.away_team_id = team_id
          /\ spine' = spine \ {g}
    /\ UNCHANGED <<store, txnOpen, txnStore, txnNow, clock, season, team_id,
                   group_quantity, limit, date_list, i, pc, lineup_rows,
                   game_info, k, loaded, total_loaded, success_count,
                   fail_count, no_data_count, result, outcome, sleeps, calls,
                   batch, spineDates, arg, res>>

Next ==
    \/ EnumerateDates
    \/ Extract
    \/ Resolve
    \/ Execute
    \/ Commit
    \/ Sleep
    \/ Interrupt
    \/ SpineRevised

Spec == Init /\ [][Next]_vars

----------------------------------------------------------------------------
(* Properties of a run *)

Idx == 1..Len(date_list)

NoDataOutcomes == {"no_data_empty", "no_data_unresolved"}

\* the iteration of date j has ended
Ended(j) == outcome[j] # "pending"

RECURSIVE SumLen(_, _)
\* the number of records of the dates of J
SumLen(b, J) ==
    IF J = {} THEN 0
    ELSE LET j == CHOOSE x \in J : TRUE IN Len(b[j]) + SumLen(b, J \ {j})

\* the visible rows of one calendar date
RowsOfDate(d) == {r \in store : r.game_date = d}

\* a stored row without its timestamp
Columns(r) ==
    [game_id |-> r.game_id, season |-> r.season, team_id |-> r.team_id,
     group_quantity |-> r.group_quantity, group_id |-> r.group_id,
     group_name |-> r.group_name, opponent_team_id |-> r.opponent_team_id,
     is_home |-> r.is_home, game_date |-> r.game_date, pts |-> r.pts]

\* the columns a record puts into the store
ColumnsOfRecord(rec, d) ==
    [game_id |-> rec.game_id, season |-> rec.season, team_id |-> rec.team_id,
     group_quantity |-> rec.group_quantity, group_id |-> rec.group_id,
     group_name |-> rec.group_name, opponent_team_id |-> rec.opponent_team_id,
     is_home |-> rec.is_home, game_date |-> d, pts |-> rec.pts]

\* all the upserts of the records b of date d are visible: every record's
\* key has the columns of the last record of b with that key, nothing else
\* is stored for the date, and the rows carry one timestamp
AllVisible(b, d) ==
    /\ \A n \in 1..Len(b) :
         (\A m \in (n + 1)..Len(b) : KeyOf(b[m]) # KeyOf(b[n]))
            => \E r \in RowsOfDate(d) : Columns(r) = ColumnsOfRecord(b[n], d)
    /\ \A r \in RowsOfDate(d) :
         \E n \in 1..Len(b) : Columns(r) = ColumnsOfRecord(b[n], d)
    /\ \A r1, r2 \in RowsOfDate(d) :
         /\ r1.last_updated_at = r2.last_updated_at
         /\ KeyOf(r1) = KeyOf(r2) => r1 = r2

\* a step in which the iteration of the current date raises
Raises == pc \in Running /\ outcome[i] = "pending" /\ outcome'[i] = "failed"

\* the run has returned after processing every date of the list, and its
\* count holds the records of the dates that did not fail
ReturnedAfterAll ==
    pc = "done" =>
        /\ \A j \in Idx : Ended(j) /\ calls[j] = 1
        /\ fail_count = Cardinality({j \in Idx : outcome[j] = "failed"})
        /\ result = Some(SumLen(batch, {j \in Idx : outcome[j] # "failed"}))

\* C1: an exception raised for a date is caught: the date is counted as
\* failed exactly once, the count of loaded rows is not changed by it, the
\* loop goes on, and the run returns only after every date of the list was
\* processed, with the rows of the loaded dates alone
C1_FailureIsolated ==
    [][/\ Raises => /\ fail_count' = fail_count + 1
                    /\ total_loaded' = total_loaded
                    /\ success_count' = success_count
                    /\ no_data_count' = no_data_count
                    /\ i' = i
                    /\ pc' = "sleep"
       /\ ReturnedAfterAll']_vars

C1_Witness ==
    /\ pc = "done"
    /\ Len(date_list) = 2
    /\ outcome[1] = "failed"
    /\ outcome[2] = "loaded"
    /\ fail_count = 1
    /\ result = Some(2)

\* C2: in every state the visible store holds, for each date of the list,
\* all the upserts of its records when its transaction committed and no row
\* at all otherwise (pending, in progress, failed, interrupted, no data)
C2_PerDateAtomic ==
    \A j \in Idx :
        IF outcome[j] = "loaded"
        THEN AllVisible(batch[j], date_list[j].sql)
        ELSE RowsOfDate(date_list[j].sql) = {}

\* the second date fails or is interrupted after one of its two records was
\* executed, while the rows of the first date stay
C2_Witness ==
    /\ pc = "persist"
    /\ i = 2
    /\ k = 2
    /\ Len(lineup_rows) = 2
    /\ txnStore # store
    /\ outcome[1] = "loaded"
    /\ RowsOfDate(date_list[1].sql) # {}
    /\ RowsOfDate(date_list[2].sql) = {}

\* a step that ends the current date without a transaction and without an
\* exception
EndsWithoutData ==
    /\ pc \in {"extract", "resolve"}
    /\ pc' = "sleep"
    /\ outcome'[i] # "failed"

\* no row of a date without data is visible
NoRowsOfNoData ==
    \A j \in Idx : outcome[j] \in NoDataOutcomes
                      => RowsOfDate(date_list[j].sql) = {}

\* C4: an iteration whose extraction is empty, or whose game is not found,
\* executes no upsert, leaves the store as it is and is counted as no_data,
\* not as failed; no row of such a date is ever stored
C4_NoDataWritesNothing ==
    [][/\ EndsWithoutData =>
            /\ outcome'[i] = (IF pc = "extract" THEN "no_data_empty"
                              ELSE "no_data_unresolved")
            /\ pc = "resolve" =>
                 /\ lineup_rows # <<>>
                 /\ MatchingGames(spine, StrfSql(date_list[i].sql), team_id) = {}
            /\ store' = store
            /\ txnStore' = txnStore
            /\ txnOpen' = FALSE
            /\ no_data_count' = no_data_count + 1
            /\ fail_count' = fail_count
            /\ success_count' = success_count
            /\ total_loaded' = total_loaded
       /\ NoRowsOfNoData']_vars

C4_Witness ==
    /\ pc = "done"
    /\ Len(date_list) = 2
    /\ outcome[1] = "no_data_unresolved"
    /\ outcome[2] = "no_data_empty"
    /\ no_data_count = 2
    /\ fail_count = 0
    /\ store = {}

\* C5: the returned integer is the sum, over the dates whose transaction
\* committed, of the number of records persisted for the date
C5_ReturnIsRowsLoaded ==
    pc = "done" =>
        result = Some(SumLen(batch, {j \in Idx : outcome[j] = "loaded"}))

C5_Witness ==
    /\ pc = "done"
    /\ Len(date_list) = 2
    /\ outcome[1] = "loaded"
    /\ outcome[2] = "loaded"
    /\ Len(batch[1]) = 2
    /\ Len(batch[2]) = 1
    /\ result = Some(3)

\* C6: with a limit n >= 0 the run processes at most n dates, the n earliest
\* of the team and season; without a limit it processes all of them
C6_LimitBoundsDates ==
    pc # "start" =>
        /\ \A a, b \in 1..Len(spineDates) :
             a < b => DateLess(spineDates[a], spineDates[b])
        /\ \A j \in Idx : date_list[j].sql = spineDates[j]
        /\ limit = None => Len(date_list) = Len(spineDates)
        /\ limit # None =>
             /\ Len(date_list) <= The(limit)
             /\ Len(date_list) = (IF The(limit) < Len(spineDates)
                                  THEN The(limit) ELSE Len(spineDates))

\* the group ids the source itself sends
SourceIds == {c.s : c \in {c \in GroupIdCells : c.t = "str"}} \ {""}

\* C7: after a run, a loaded date has one stored row per source row; a row
\* with a source group id g is keyed g, a row without one is keyed
\* date_<YYYYMMDD>_lineup_<idx>; every row carries the game id, the home flag
\* and the opponent of the spine's game
C7_EndToEnd ==
    pc = "done" =>
        \A j \in Idx : outcome[j] = "loaded" =>
            LET d == date_list[j].sql
                b == batch[j]
            IN /\ (\A n, m \in 1..Len(b) :
                      (n # m /\ b[n].group_id.kind = "src"
                             /\ b[m].group_id.kind = "src"
                             /\ b[n].group_id.s \in SourceIds)
                        => b[n].group_id # b[m].group_id)
                    => Cardinality(RowsOfDate(d)) = Len(b)
               /\ \A r \in RowsOfDate(d) :
                    /\ \/ r.group_id.kind = "src" /\ r.group_id.s \in SourceIds
                       \/ /\ r.group_id.kind = "synth"
                          /\ r.group_id.compact = CompactYmd(d)
                    /\ \E g \in GameUniverse :
                         /\ g.game_date = d
                         /\ g.game_id = r.game_id
                         /\ r.team_id \in {g.home_team_id, g.away_team_id}
                         /\ r.is_home = Some(g.home_team_id = r.team_id)
                         /\ r.opponent_team_id =
                              Some(CHOOSE t \in {g.home_team_id, g.away_team_id} :
                                      t # r.team_id)

\* C10: every ended iteration made exactly one pacing delay, whatever its
\* outcome, and the source is called for a date once, only after the
\* iteration of the date before it has ended with its delay
C10_Pacing ==
    \A j \in Idx :
        /\ sleeps[j] = (IF j < i \/ pc = "done" THEN 1 ELSE 0)
        /\ calls[j] <= 1
        /\ calls[j] = 1 => \A m \in 1..(j - 1) : sleeps[m] = 1 /\ Ended(m)
        /\ j > i => calls[j] = 0

C10_Witness ==
    /\ pc = "extract"
    /\ i = 2
    /\ outcome[1] = "no_data_unresolved"
    /\ sleeps[1] = 1
    /\ calls = <<1, 0>>

----------------------------------------------------------------------------
(* The functions on their own: no run is in progress *)

NoRun ==
    /\ txnOpen = FALSE
    /\ txnStore = {}
    /\ txnNow = 0
    /\ season = "2024-25"
    /\ team_id = TeamX
    /\ group_quantity = 5
    /\ limit = None
    /\ date_list = <<>>
    /\ i = 0
    /\ pc = "idle"
    /\ lineup_rows = <<>>
    /\ game_info = NotFound
    /\ k = 0
    /\ loaded = 0
    /\ total_loaded = 0
    /\ success_count = 0
    /\ fail_count = 0
    /\ no_data_count = 0
    /\ result = None
    /\ outcome = <<>>
    /\ sleeps = <<>>
    /\ calls = <<>>
    /\ batch = <<>>
    /\ spineDates = <<>>

runVars == <<txnOpen, txnStore, txnNow, season, team_id, group_quantity, limit,
             date_list, i, pc, lineup_rows, game_info, k, loaded, total_loaded,
             success_count, fail_count, no_data_count, result, outcome, sleeps,
             calls, batch, spineDates>>

(* clean_player_names *)

NameAlphabet == {"a", "b", ".", " ", "-"}

Texts(n) == UNION {[1..m -> NameAlphabet] : m \in 0..n}

LeBronAndDavis ==
    <<"L", "e", "B", "r", "o", "n", " ", "J", "a", "m", "e", "s", " ", "-", " ",
      "A", "n", "t", "h", "o", "n", "y", " ", "D", "a", "v", "i", "s">>

JamesDavis == <<"J", "a", "m", "e", "s", ";", " ", "D", "a", "v", "i", "s">>

Nene == <<"N", "e", "n", "e">>

NameInputs ==
    {NullCell, NanCell}
    \cup {StrCell(t) : t \in Texts(MaxNameLen) \cup {LeBronAndDavis, Nene}}

InitNames ==
    /\ NoRun
    /\ spine = {}
    /\ store = {}
    /\ clock = 0
    /\ arg \in NameInputs
    /\ res = None

CleanName ==
    /\ res = None
    /\ res' = Some(clean_player_names(arg))
    /\ UNCHANGED <<spine, store, clock, arg, runVars>>

NextNames == CleanName

SpecNames == InitNames /\ [][NextNames]_vars

(* get_game_info_for_date *)

DateTexts ==
    {StrfApi(D1), StrfApi(D2), StrfApi(D0), StrfApi(Date(2025, 1, 16)),
     StrfSql(D1), <<13, 15, 2025>>, <<2, 30, 2025>>, <<1, 15>>}

InitResolve ==
    /\ NoRun
    /\ spine \in (SUBSET GameUniverse)
    /\ store = {}
    /\ clock = 0
    /\ arg \in [date : DateTexts, team : Teams]
    /\ res = None

ResolveCall ==
    /\ res = None
    /\ \E info \in get_game_info_for_date(spine, arg.date, arg.team) :
          res' = Some(info)
    /\ UNCHANGED <<spine, store, clock, arg, runVars>>

NextResolve == ResolveCall

SpecResolve == InitResolve /\ [][NextResolve]_vars

(* SQL_UPSERT_GAME_LINEUP *)

UpsertInputs ==
    [game_id : {"G1"}, season : Seasons, team_id : {TeamX},
     group_quantity : {2, 5},
     group_id : {SrcId("12-34"), SynthId(StrfApi(D1), 0)},
     group_name : {Some(<<"B">>)}, opponent_team_id : {Some(TeamY)},
     is_home : {Some(TRUE)}, game_date : {D1}, pts : {None, Some(7)}]

InitUpsert ==
    /\ NoRun
    /\ spine = {}
    /\ store = {}
    /\ clock = 0
    /\ arg = None
    /\ res = None

\* one committed execution of the statement
ApplyUpsert ==
    /\ clock < MaxUpserts
    /\ \E p \in UpsertInputs :
          /\ store' = Upsert(store, p, clock + 1)
          /\ arg' = Some(p)
    /\ clock' = clock + 1
    /\ UNCHANGED <<spine, res, runVars>>

NextUpsert == ApplyUpsert

SpecUpsert == InitUpsert /\ [][NextUpsert]_vars

(* extract_lineups_for_date *)

InitExtract ==
    /\ NoRun
    /\ spine = {}
    /\ store = {}
    /\ clock = 0
    /\ arg \in [resp : Responses, date : {StrfApi(D1), StrfApi(D2)}]
    /\ res = None

\* one call whose response arrived
ExtractCall ==
    /\ res = None
    /\ res' = Some(extract_lineups_for_date(arg.resp, arg.date, season,
                                            team_id, group_quantity))
    /\ UNCHANGED <<spine, store, clock, arg, runVars>>

NextExtract == ExtractCall

SpecExtract == InitExtract /\ [][NextExtract]_vars

----------------------------------------------------------------------------
(* Properties of the functions *)

\* C3: after the upsert of a record, its key has exactly one row, and every
\* non-key column of the row (season and group_quantity included) has the
\* record's value, with the timestamp of this upsert
C3_LastWriteWins ==
    arg # None =>
        LET p == The(arg)
            hit == {r \in store : KeyOf(r) = KeyOf(p)}
        IN /\ Cardinality(hit) = 1
           /\ \A r \in hit : r = InsertedRow(p, clock)

\* the games of the spine that the date text and the team denote
GamesOn(text, team) ==
    {g \in spine : StrfApi(g.game_date) = text
                   /\ team \in {g.home_team_id, g.away_team_id}}

\* info is the identity of game g as seen by team
IdentityOf(info, g, team) ==
    /\ info.game_id = g.game_id
    /\ info.is_home = (g.home_team_id = team)
    /\ info.opponent_team_id \in {g.home_team_id, g.away_team_id} \ {team}

\* C8 as stated: an identity is returned exactly when the spine has exactly
\* one game of the team on the date, and it is that game's identity
C8_ExactlyOneGame ==
    res # None =>
        LET info == The(res)
            M == GamesOn(arg.date, arg.team)
        IN /\ info.found <=> Cardinality(M) = 1
           /\ info.found => \E g \in M : IdentityOf(info, g, arg.team)

\* C8 amended: an identity is returned exactly when the spine has at least
\* one game of the team on the date, and it is the identity of one of them;
\* with no such game or a malformed date the result is "not found"
C8_SomeGame ==
    res # None =>
        LET info == The(res)
            M == GamesOn(arg.date, arg.team)
        IN /\ info.found <=> M # {}
           /\ info.found => \E g \in M : IdentityOf(info, g, arg.team)
           /\ StrpApi(arg.date) = None => ~info.found

C8_Witness ==
    /\ res # None
    /\ The(res).found
    /\ Cardinality(GamesOn(arg.date, arg.team)) = 2
    /\ The(res).game_id = "G3"
    /\ The(res).is_home = FALSE

\* sur is the surname of the name n: what follows the first ". " if n has
\* one, else what follows the last space if n has one, else n itself
IsSurname(n, sur) ==
    IF \E p \in 1..Len(n) : OccursAt(n, DotSep, p)
    THEN \E p \in 1..Len(n) :
            /\ OccursAt(n, DotSep, p)
            /\ \A q \in 1..(p - 1) : ~OccursAt(n, DotSep, q)
            /\ sur = Slice(n, p + 2, Len(n))
    ELSE IF \E p \in 1..Len(n) : n[p] = " "
    THEN \E p \in 1..Len(n) :
            /\ n[p] = " "
            /\ \A q \in (p + 1)..Len(n) : n[q] # " "
            /\ sur = Slice(n, p + 1, Len(n))
    ELSE sur = n

Suffixes(n) == {Slice(n, p, Len(n)) : p \in 1..(Len(n) + 1)}

\* the input is a list of names joined by " - "
ListOfNames(t) ==
    LET parts == PySplit(t, DashSep) IN
    \A j \in 1..Len(parts) : Strip(parts[j]) # <<>>

ExpectedNames(t) ==
    LET parts == PySplit(t, DashSep) IN
    PyJoin([j \in 1..Len(parts) |->
               CHOOSE sur \in Suffixes(Strip(parts[j])) :
                   IsSurname(Strip(parts[j]), sur)], SemiSep)

\* C9: a list of names joined by " - " gives the surnames joined by "; " in
\* the same order; "LeBron James - Anthony Davis" gives "James; Davis", a
\* single-token name gives itself, an absent or empty input gives no value
C9_Canonical ==
    res # None =>
        LET out == The(res) IN
        /\ arg.t # "str" => out = None
        /\ arg.t = "str" =>
             /\ arg.s = <<>> => out = None
             /\ ListOfNames(arg.s) => out = Some(ExpectedNames(arg.s))
             /\ arg.s = LeBronAndDavis => out = Some(JamesDavis)
             /\ arg.s = Nene => out = Some(Nene)
             /\ (\A p \in 1..Len(arg.s) : arg.s[p] \in {"a", "b"}) /\ arg.s # <<>>
                  => out = Some(arg.s)

C9_Witness ==
    /\ arg = StrCell(LeBronAndDavis)
    /\ res = Some(Some(JamesDavis))

\* the 0-based positions of the response rows that belong to the team
KeptIdx(resp, team) ==
    {x \in 0..(Len(resp.rows) - 1) : resp.rows[x + 1].TEAM_ID = team}

\* the position in the response of the n-th extracted row
IdxOf(resp, team, n) ==
    CHOOSE x \in KeptIdx(resp, team) :
        Cardinality({y \in KeptIdx(resp, team) : y < x}) = n - 1

\* the row brings a combination identifier of the source
HasSourceId(resp, row) ==
    /\ resp.hasGroupId
    /\ row.GROUP_ID.t = "str"
    /\ row.GROUP_ID.s # ""

\* C11: the group_id of an extracted row is the source's identifier when
\* the row brings one, and otherwise (column absent, empty value, null value)
\* an identifier made of the date and the row's index alone; two rows of one
\* date without a source identifier never share a group_id
C11_GroupIdDerivation ==
    res # None =>
        LET out == The(res)
            resp == arg.resp
        IN /\ Len(out) = Cardinality(KeptIdx(resp, team_id))
           /\ \A n \in 1..Len(out) :
                LET x == IdxOf(resp, team_id, n)
                    row == resp.rows[x + 1]
                IN IF HasSourceId(resp, row)
                   THEN out[n].group_id = SrcId(row.GROUP_ID.s)
                   ELSE /\ out[n].group_id.kind = "synth"
                        /\ out[n].group_id.idx = x
                        /\ out[n].group_id.compact = CompactApi(arg.date)
           /\ \A n, m \in 1..Len(out) :
                (/\ n # m
                 /\ ~HasSourceId(resp, resp.rows[IdxOf(resp, team_id, n) + 1])
                 /\ ~HasSourceId(resp, resp.rows[IdxOf(resp, team_id, m) + 1]))
                   => out[n].group_id # out[m].group_id

\* the dates of the list whose outcome is in O
DatesWith(O) == {j \in Idx : outcome[j] \in O}

\* C12: every date gets exactly one of the outcomes success, no_data and
\* failed and is counted once: each counter is the number of dates with its
\* outcome, the three add up to the number of dates counted so far, which at
\* the start of an iteration is the number of iterations finished, and in
\* the summary they add up to the number of dates processed
C12_OutcomePartition ==
    /\ success_count = Cardinality(DatesWith({"loaded"}))
    /\ no_data_count = Cardinality(DatesWith(NoDataOutcomes))
    /\ fail_count = Cardinality(DatesWith({"failed"}))
    /\ success_count + no_data_count + fail_count
         = Cardinality({j \in Idx : Ended(j)})
    /\ \A j \in Idx : (j < i => Ended(j)) /\ (j > i => ~Ended(j))
    /\ pc \in {"resolve", "persist"} => ~Ended(i)
    /\ pc = "sleep" => Ended(i)
    /\ pc = "extract" => success_count + no_data_count + fail_count = i - 1
    /\ pc = "done" =>
         success_count + no_data_count + fail_count = Len(date_list)

C12_Witness ==
    /\ pc = "done"
    /\ Len(date_list) = 2
    /\ outcome[1] = "loaded"
    /\ outcome[2] = "failed"
    /\ success_count = 1
    /\ no_data_count = 0
    /\ fail_count = 1

====
